---- MODULE Spec2Model ----
(***************************************************************************)
(* Model of src/main.go: an HTTP server (net/http) wired through an fx     *)
(* lifecycle.  Three specifications share the module:                      *)
(*   Spec      the lifecycle: construction, start hook, accept loop,       *)
(*             in-flight requests, stop hook, process exit                 *)
(*   SpecMux   NewServeMux and the dispatch of one request path            *)
(*   SpecH     the Echo and Hello handlers running concurrently            *)
(* Calls into net/http and fx are modelled by what the library does at the *)
(* call site in main.go.                                                   *)
(***************************************************************************)
EXTENDS Integers, Sequences, FiniteSets, TLC

VARIABLES
    routes,      \* the []Route handed to NewServeMux (fx group "routes")
    mux,         \* the *http.ServeMux: "unbuilt", "panic" or a set of entries
    served,      \* SpecMux: the last request dispatched, or Nil
    app,         \* phase of fx.New(...).Run()
    starts,      \* number of times the server's OnStart hook has run
    startErr,    \* result of the last OnStart of the server hook
    lnState,     \* listener of the n-th OnStart: "none", "open", "closed"
    servePc,     \* goroutine of the n-th OnStart: "none","spawned","accept","returned"
    tracked,     \* srv.listeners: listeners registered by Serve
    inShutdown,  \* srv.inShutdown
    stopPc,      \* position inside srv.Shutdown
    stopErr,     \* result of the last OnStop of the server hook
    ctxDone,     \* the context of the running OnStop has expired
    hist,        \* history: facts about what has already happened
    conn,        \* per connection: state of the connection and its request
    printed,     \* lines written to stdout / the server's error log
    req          \* SpecH: per request, the handler's state

vars == <<routes, mux, served, app, starts, startErr, lnState, servePc, tracked,
          inShutdown, stopPc, stopErr, ctxDone, hist, conn, printed, req>>

Nil == "nil"

----------------------------------------------------------------------------
(* Bounds *)
MaxRoutes == 3
MaxSegs == 3
MaxStarts == 2
MaxConns == 2
MaxReqs == 2
MaxBody == 3

----------------------------------------------------------------------------
(* Paths.  A path is the sequence of its segments: the string is the       *)
(* concatenation of "/" + segment, so "/echo" is <<"echo">>, "/" is <<"">>,*)
(* "/echo/" is <<"echo", "">>, "//echo" is <<"", "echo">> and "" is <<>>.  *)

Segs == {"", ".", "..", "echo", "hello", "echox"}

Paths == UNION {[1..n -> Segs] : n \in 0..MaxSegs}

\* func (h *EchoHandler) Pattern() string
EchoPattern == <<"echo">>

\* func (*HelloHandler) Pattern() string
HelloPattern == <<"hello">>

\* The Route values fx can supply: instances of the two handler types.
RouteValues == [kind : {"echo", "hello"}, id : 1..2]

Pattern(route) == IF route.kind = "echo" THEN EchoPattern ELSE HelloPattern

RECURSIVE SeqsUpTo(_, _)
SeqsUpTo(S, n) == IF n = 0 THEN {<<>>} ELSE SeqsUpTo(S, n - 1) \cup [1..n -> S]

\* Every collection of routes the constructor can be handed.
RouteLists == SeqsUpTo(RouteValues, MaxRoutes)

----------------------------------------------------------------------------
(* http.ServeMux as NewServeMux uses it (main.go:112-116).  The table is a *)
(* set of entries, as the library's map of muxEntry; a panic of mux.Handle *)
(* is the state "panic".                                                   *)

NoRoute == [kind |-> "none", id |-> 0]

UnbuiltMux == [state |-> "unbuilt", m |-> {}]

EmptyMux == [state |-> "ok", m |-> {}]

\* mux.Handle without the check for an already registered pattern.
HandleNoCollisionCheck(mx, pattern, handler) ==
    IF mx.state = "panic" THEN mx
    ELSE IF pattern = <<>> THEN [mx EXCEPT !.state = "panic"]
    ELSE [mx EXCEPT !.m = @ \cup {[pattern |-> pattern, handler |-> handler]}]

\* mux.Handle(route.Pattern(), route): panics on an empty pattern and on a
\* pattern that is already registered; a panic ends the loop.
Handle(mx, pattern, handler) ==
    IF mx.state = "panic" THEN mx
    ELSE IF pattern = <<>> THEN [mx EXCEPT !.state = "panic"]
    ELSE IF \E e \in mx.m : e.pattern = pattern THEN [mx EXCEPT !.state = "panic"]
    ELSE [mx EXCEPT !.m = @ \cup {[pattern |-> pattern, handler |-> handler]}]

\* for _, route := range routes { mux.Handle(route.Pattern(), route) }
RECURSIVE HandleAll(_, _, _)
HandleAll(mx, rs, i) ==
    IF i > Len(rs) THEN mx
    ELSE HandleAll(Handle(mx, Pattern(rs[i]), rs[i]), rs, i + 1)

\* mux := http.NewServeMux(); the loop; return mux
NewServeMuxResult(rs) == HandleAll(EmptyMux, rs, 1)

(* The path cleaning ServeMux applies to a request path before matching.   *)
RECURSIVE CleanSegs(_, _, _)
CleanSegs(p, i, stack) ==
    IF i > Len(p) THEN stack
    ELSE IF p[i] \in {"", "."} THEN CleanSegs(p, i + 1, stack)
    ELSE IF p[i] = ".."
         THEN CleanSegs(p, i + 1,
                        IF stack = <<>> THEN stack
                        ELSE SubSeq(stack, 1, Len(stack) - 1))
    ELSE CleanSegs(p, i + 1, Append(stack, p[i]))

Root == <<"">>

CleanPath(p) ==
    IF p = <<>> THEN Root
    ELSE LET s == CleanSegs(p, 1, <<>>)
             np == IF s = <<>> THEN Root ELSE s
         IN  IF p[Len(p)] = "" /\ np # Root THEN Append(np, "") ELSE np

\* A pattern ending in "/" names a subtree; the patterns of this program do not.
IsSubtree(pat) == pat # <<>> /\ pat[Len(pat)] = ""

HasPrefix(path, pat) ==
    /\ Len(path) >= Len(pat)
    /\ SubSeq(path, 1, Len(pat) - 1) = SubSeq(pat, 1, Len(pat) - 1)

\* Matching in which a pattern also matches every path it is a prefix of.
MatchByPrefix(m, path) ==
    {e \in m : /\ Len(path) >= Len(e.pattern)
               /\ SubSeq(path, 1, Len(e.pattern)) = e.pattern}

\* The entries of the table that serve path: the exact pattern, else the
\* longest subtree pattern that is a prefix of it.
Match(m, path) ==
    LET exact == {e \in m : e.pattern = path}
        sub   == {e \in m : IsSubtree(e.pattern) /\ HasPrefix(path, e.pattern)}
    IN  IF exact # {} THEN exact
        ELSE {e \in sub : \A f \in sub : Len(f.pattern) <= Len(e.pattern)}

\* ServeMux.ServeHTTP for a request path: where the request goes.
ServeMuxHandler(m, path) ==
    LET cp == CleanPath(path)
        es == Match(m, path)
    IN  IF Match(m, cp) = {} /\ Match(m, Append(cp, "")) # {}
        THEN [kind |-> "redirect", status |-> 301, route |-> NoRoute,
              location |-> Append(cp, "")]
        ELSE IF cp # path
        THEN [kind |-> "redirect", status |-> 301, route |-> NoRoute,
              location |-> cp]
        ELSE IF es = {}
        THEN [kind |-> "notfound", status |-> 404, route |-> NoRoute,
              location |-> <<>>]
        ELSE [kind |-> "route", status |-> 0,
              route |-> (CHOOSE e \in es : TRUE).handler, location |-> <<>>]

----------------------------------------------------------------------------
(* The lifecycle: fx.New(...).Run() in main (main.go:17-38), the hooks of  *)
(* NewHTTPServer (main.go:46-68) and of NewServeMux (main.go:102-111).     *)

Starts == 1..MaxStarts

Conns == 1..MaxConns

\* The request paths that arrive while the server runs.
LifecyclePaths == {EchoPattern, HelloPattern, <<"echox">>}

NoConn ==
    [state |-> "none", resp |-> "none", atStop |-> FALSE,
     atDeadline |-> FALSE, finished |-> "no", severed |-> FALSE]

NoHist ==
    [everStarted |-> FALSE, shutdownReturned |-> FALSE, fatalAccept |-> FALSE]

NoServed ==
    [done |-> FALSE, path |-> <<>>,
     resp |-> [kind |-> "none", status |-> 0, route |-> NoRoute,
               location |-> <<>>]]

Init ==
    /\ routes \in RouteLists
    /\ mux = UnbuiltMux
    /\ served = NoServed
    /\ app = "new"
    /\ starts = 0
    /\ startErr = Nil
    /\ lnState = [n \in Starts |-> "none"]
    /\ servePc = [n \in Starts |-> "none"]
    /\ tracked = {}
    /\ inShutdown = FALSE
    /\ stopPc = "idle"
    /\ stopErr = Nil
    /\ ctxDone = FALSE
    /\ hist = NoHist
    /\ conn = [c \in Conns |-> NoConn]
    /\ printed = {}
    /\ req = <<>>

\* The process is alive: goroutines run only until main returns or panics.
Alive == app \notin {"new", "crashed", "exited"}

\* srv.Shutdown has been called and has not returned.
Stopping == stopPc \in {"lock", "wait", "poll", "select"}

\* fx.New: fx calls NewServeMux (which NewHTTPServer depends on), then
\* NewHTTPServer, which builds srv and appends its hooks.  A panic of
\* mux.Handle ends the process before any hook has run.
NewServeMux ==
    /\ app = "new"
    /\ mux' = NewServeMuxResult(routes)
    /\ app' = IF mux'.state = "panic" THEN "crashed" ELSE "built"
    /\ UNCHANGED <<routes, served, starts, startErr, lnState, servePc, tracked,
                   inShutdown, stopPc, stopErr, ctxDone, hist, conn, printed, req>>

\* OnStart of the mux hook (main.go:103-106); hooks start in the order they
\* were appended, the mux's first.  Run starts the application once; the
\* lifecycle the hooks are appended to can be started again after a stop.
MuxOnStart ==
    /\ app \in {"built", "stopped"}
    /\ starts < MaxStarts
    /\ printed' = printed \cup {"starting mux"}
    /\ app' = "startingServer"
    /\ UNCHANGED <<routes, mux, served, starts, startErr, lnState, servePc,
                   tracked, inShutdown, stopPc, stopErr, ctxDone, hist, conn, req>>

\* OnStart with the error of net.Listen ignored.
OnStartIgnoringBindError ==
    /\ starts' = starts + 1
    /\ startErr' = Nil
    /\ servePc' = [servePc EXCEPT ![starts + 1] = "spawned"]
    /\ printed' = printed \cup {"Starting HTTP server"}
    /\ app' = "running"
    /\ UNCHANGED <<lnState, hist>>

\* OnStart, net.Listen failed: if err != nil { return err } (main.go:50-53).
\* fx then stops the hooks already started and Run exits.
OnStartBindError ==
    /\ starts' = starts + 1
    /\ startErr' = "bind"
    /\ app' = "rollback"
    /\ UNCHANGED <<lnState, servePc, printed, hist>>

\* OnStart with srv built inside the hook: every start gets a new server.
OnStartFreshServer ==
    /\ starts' = starts + 1
    /\ startErr' = Nil
    /\ lnState' = [lnState EXCEPT ![starts + 1] = "open"]
    /\ servePc' = [servePc EXCEPT ![starts + 1] = "spawned"]
    /\ printed' = printed \cup {"Starting HTTP server"}
    /\ hist' = [hist EXCEPT !.everStarted = TRUE]
    /\ app' = "running"
    /\ inShutdown' = FALSE

\* OnStart, net.Listen succeeded (main.go:54-61): print, spawn the goroutine
\* that runs srv.Serve(ln), return nil.  srv itself was built once, by the
\* constructor (main.go:47).
OnStartBound ==
    /\ starts' = starts + 1
    /\ startErr' = Nil
    /\ lnState' = [lnState EXCEPT ![starts + 1] = "open"]
    /\ servePc' = [servePc EXCEPT ![starts + 1] = "spawned"]
    /\ printed' = printed \cup {"Starting HTTP server"}
    /\ hist' = [hist EXCEPT !.everStarted = TRUE]
    /\ app' = "running"
    /\ UNCHANGED inShutdown

\* OnStart of the server hook (main.go:49-62).  The bind fails when the
\* address is taken: by another process, or by a listener of this process
\* that is still open.
ServerOnStart ==
    /\ app = "startingServer"
    /\ \E free \in BOOLEAN :
         IF free /\ (\A n \in Starts : lnState[n] # "open")
         THEN OnStartBound
         ELSE OnStartBindError /\ UNCHANGED inShutdown
    /\ UNCHANGED <<routes, mux, served, tracked, stopPc, stopErr, ctxDone,
                   conn, req>>

(* The goroutine of OnStart: err := srv.Serve(ln); if err != nil           *)
(* { fmt.Println("HTTP server error:", err) } (main.go:55-60).             *)

\* Serve returns err: its deferred calls untrack and close the listener, and
\* the goroutine prints every non-nil error, http.ErrServerClosed included.
ServeReturn(n, err) ==
    /\ servePc' = [servePc EXCEPT ![n] = "returned"]
    /\ lnState' = [lnState EXCEPT ![n] = "closed"]
    /\ tracked' = tracked \ {n}
    /\ printed' = printed \cup {"HTTP server error: " \o err}

\* Serve registers the listener with the server, unless the server is
\* already shutting down: then it returns ErrServerClosed at once.
ServeTrack(n) ==
    /\ Alive
    /\ servePc[n] = "spawned"
    /\ IF inShutdown
       THEN ServeReturn(n, "http: Server closed")
       ELSE /\ tracked' = tracked \cup {n}
            /\ servePc' = [servePc EXCEPT ![n] = "accept"]
            /\ UNCHANGED <<lnState, printed>>
    /\ UNCHANGED <<routes, mux, served, app, starts, startErr, inShutdown,
                   stopPc, stopErr, ctxDone, hist, conn, req>>

\* The connection the next Accept hands out.
FreeConn == CHOOSE c \in Conns :
                /\ conn[c].state = "none"
                /\ \A d \in Conns : conn[d].state = "none" => c <= d

\* l.Accept() returns a connection; go c.serve(ctx) reads the request and
\* calls the mux: a registered route's handler starts running, any other
\* request is answered at once.
ServeAccept(n, path) ==
    /\ Alive
    /\ servePc[n] = "accept"
    /\ lnState[n] = "open"
    /\ \E c \in Conns : conn[c].state = "none"
    /\ LET h == ServeMuxHandler(mux.m, path)
       IN  conn' = [conn EXCEPT ![FreeConn] =
                      IF h.kind = "route"
                      THEN [NoConn EXCEPT !.state = "active"]
                      ELSE [NoConn EXCEPT !.state = IF inShutdown THEN "closed"
                                                    ELSE "idle",
                                          !.resp = h.kind]]
    /\ UNCHANGED <<routes, mux, served, app, starts, startErr, lnState, servePc,
                   tracked, inShutdown, stopPc, stopErr, ctxDone, hist, printed, req>>

\* l.Accept() fails with a temporary error: Serve logs it to the server's
\* error log, sleeps and retries.
ServeAcceptTemporaryError(n) ==
    /\ Alive
    /\ servePc[n] = "accept"
    /\ lnState[n] = "open"
    /\ printed' = printed \cup {"http: Accept error; retrying"}
    /\ UNCHANGED <<routes, mux, served, app, starts, startErr, lnState, servePc,
                   tracked, inShutdown, stopPc, stopErr, ctxDone, hist, conn, req>>

\* l.Accept() fails with any other error: Serve returns ErrServerClosed if
\* the server is shutting down (the listener was closed by Shutdown), and
\* the error itself otherwise.
ServeAcceptError(n) ==
    /\ Alive
    /\ servePc[n] = "accept"
    /\ IF inShutdown
       THEN ServeReturn(n, "http: Server closed") /\ UNCHANGED hist
       ELSE /\ lnState[n] = "open"
            /\ ServeReturn(n, "accept failed")
            /\ hist' = [hist EXCEPT !.fatalAccept = TRUE]
    /\ UNCHANGED <<routes, mux, served, app, starts, startErr, inShutdown,
                   stopPc, stopErr, ctxDone, conn, req>>

\* A handler returns: the response is complete; the connection becomes idle,
\* or is closed by its own goroutine when the server is shutting down.
HandlerFinish(c) ==
    /\ Alive
    /\ conn[c].state = "active"
    /\ conn' = [conn EXCEPT ![c].state = IF inShutdown THEN "closed" ELSE "idle",
                            ![c].resp = "complete",
                            ![c].finished =
                               IF conn[c].atStop /\ Stopping /\ ~ctxDone
                               THEN "beforeDeadline" ELSE "other"]
    /\ UNCHANGED <<routes, mux, served, app, starts, startErr, lnState, servePc,
                   tracked, inShutdown, stopPc, stopErr, ctxDone, hist, printed, req>>

(* OnStop of the server hook: return srv.Shutdown(ctx) (main.go:63-65).    *)

\* Shutdown with the connections closed outright, as srv.Close does.
ShutdownBeginClosingConns ==
    /\ app = "running"
    /\ app' = "stopping"
    /\ inShutdown' = TRUE
    /\ stopPc' = "lock"
    /\ stopErr' = Nil
    /\ ctxDone' = FALSE
    /\ conn' = [c \in Conns |->
                  IF conn[c].state = "active"
                  THEN [conn[c] EXCEPT !.state = "closed", !.atStop = TRUE,
                                       !.atDeadline = FALSE, !.severed = TRUE]
                  ELSE [conn[c] EXCEPT !.atStop = FALSE, !.atDeadline = FALSE]]
    /\ UNCHANGED <<routes, mux, served, starts, startErr, lnState, servePc,
                   tracked, hist, printed, req>>

\* fx calls OnStop with a context that carries the stop deadline; Shutdown
\* first sets srv.inShutdown.
ShutdownBegin ==
    /\ app = "running"
    /\ app' = "stopping"
    /\ inShutdown' = TRUE
    /\ stopPc' = "lock"
    /\ stopErr' = Nil
    /\ ctxDone' = FALSE
    /\ conn' = [c \in Conns |->
                  [conn[c] EXCEPT !.atStop = (conn[c].state = "active"),
                                  !.atDeadline = FALSE]]
    /\ UNCHANGED <<routes, mux, served, starts, startErr, lnState, servePc,
                   tracked, hist, printed, req>>

\* Under srv.mu, Shutdown closes every listener Serve has registered.
ShutdownCloseListeners ==
    /\ stopPc = "lock"
    /\ lnState' = [n \in Starts |->
                     IF n \in tracked /\ lnState[n] = "open" THEN "closed"
                     ELSE lnState[n]]
    /\ stopPc' = "wait"
    /\ UNCHANGED <<routes, mux, served, app, starts, startErr, servePc, tracked,
                   inShutdown, stopErr, ctxDone, hist, conn, printed, req>>

\* srv.listenerGroup.Wait(): every Serve that registered has returned.
ShutdownWaitListeners ==
    /\ stopPc = "wait"
    /\ tracked = {}
    /\ stopPc' = "poll"
    /\ UNCHANGED <<routes, mux, served, app, starts, startErr, lnState, servePc,
                   tracked, inShutdown, stopErr, ctxDone, hist, conn, printed, req>>

\* OnStop returns err to fx, which goes on to the remaining stop hooks.
ShutdownReturn(err) ==
    /\ stopErr' = err
    /\ stopPc' = "done"
    /\ hist' = [hist EXCEPT !.shutdownReturned = TRUE]
    /\ app' = "stoppingMux"

\* srv.closeIdleConns(): close the idle connections; if none is left active
\* Shutdown returns nil, without looking at the context.
ShutdownPoll ==
    /\ stopPc = "poll"
    /\ conn' = [c \in Conns |->
                  IF conn[c].state = "idle"
                  THEN [conn[c] EXCEPT !.state = "closed"] ELSE conn[c]]
    /\ IF \A c \in Conns : conn[c].state # "active"
       THEN ShutdownReturn(Nil)
       ELSE stopPc' = "select" /\ UNCHANGED <<stopErr, hist, app>>
    /\ UNCHANGED <<routes, mux, served, starts, startErr, lnState, servePc,
                   tracked, inShutdown, ctxDone, printed, req>>

\* select { case <-ctx.Done(): return ctx.Err(); case <-timer.C: poll again }
ShutdownSelect ==
    /\ stopPc = "select"
    /\ \/ ctxDone /\ ShutdownReturn("context deadline exceeded")
       \/ stopPc' = "poll" /\ UNCHANGED <<stopErr, hist, app>>
    /\ UNCHANGED <<routes, mux, served, starts, startErr, lnState, servePc,
                   tracked, inShutdown, ctxDone, conn, printed, req>>

\* The deadline of the context handed to OnStop passes.
DeadlineExpire ==
    /\ Stopping
    /\ ~ctxDone
    /\ ctxDone' = TRUE
    /\ conn' = [c \in Conns |->
                  [conn[c] EXCEPT !.atDeadline = (conn[c].state = "active")]]
    /\ UNCHANGED <<routes, mux, served, app, starts, startErr, lnState, servePc,
                   tracked, inShutdown, stopPc, stopErr, hist, printed, req>>

\* OnStop of the mux hook (main.go:107-110): after the server's OnStop, or
\* when fx rolls a failed start back.
MuxOnStop ==
    /\ app \in {"stoppingMux", "rollback"}
    /\ printed' = printed \cup {"stopping mux"}
    /\ app' = IF app = "rollback" THEN "failed" ELSE "stopped"
    /\ UNCHANGED <<routes, mux, served, starts, startErr, lnState, servePc,
                   tracked, inShutdown, stopPc, stopErr, ctxDone, hist, conn, req>>

\* Run returns (or exits with status 1) and the process ends: the kernel
\* closes every socket the process still holds.
Exit ==
    /\ app \in {"stopped", "failed"}
    /\ app' = "exited"
    /\ lnState' = [n \in Starts |->
                     IF lnState[n] = "open" THEN "closed" ELSE lnState[n]]
    /\ conn' = [c \in Conns |->
                  IF conn[c].state = "active"
                  THEN [conn[c] EXCEPT !.state = "closed", !.severed = TRUE]
                  ELSE IF conn[c].state = "idle"
                  THEN [conn[c] EXCEPT !.state = "closed"]
                  ELSE conn[c]]
    /\ UNCHANGED <<routes, mux, served, starts, startErr, servePc, tracked,
                   inShutdown, stopPc, stopErr, ctxDone, hist, printed, req>>

Next ==
    \/ NewServeMux
    \/ MuxOnStart
    \/ ServerOnStart
    \/ \E n \in Starts : ServeTrack(n)
    \/ \E n \in Starts, path \in LifecyclePaths : ServeAccept(n, path)
    \/ \E n \in Starts : ServeAcceptTemporaryError(n)
    \/ \E n \in Starts : ServeAcceptError(n)
    \/ \E c \in Conns : HandlerFinish(c)
    \/ ShutdownBegin
    \/ ShutdownCloseListeners
    \/ ShutdownWaitListeners
    \/ ShutdownPoll
    \/ ShutdownSelect
    \/ DeadlineExpire
    \/ MuxOnStop
    \/ Exit

Spec == Init /\ [][Next]_vars

----------------------------------------------------------------------------
(* Dispatch on its own: the mux NewServeMux built serves one request path. *)

MuxServeHTTP(path) ==
    /\ mux.state = "ok"
    /\ ~served.done
    /\ served' = [done |-> TRUE, path |-> path,
                  resp |-> ServeMuxHandler(mux.m, path)]
    /\ UNCHANGED <<routes, mux, app, starts, startErr, lnState, servePc, tracked,
                   inShutdown, stopPc, stopErr, ctxDone, hist, conn, printed, req>>

NextMux ==
    \/ NewServeMux
    \/ \E path \in Paths : MuxServeHTTP(path)

SpecMux == Init /\ [][NextMux]_vars

----------------------------------------------------------------------------
(* The handlers: EchoHandler.ServeHTTP (main.go:84-93) and                 *)
(* HelloHandler.ServeHTTP (main.go:147-160), one goroutine per request.    *)
(* A body is a sequence of bytes; a response body is a sequence of bytes   *)
(* and of the literal pieces the handlers write.                           *)

Reqs == 1..MaxReqs

Bodies == SeqsUpTo({"a", "b"}, MaxBody)

\* The number of bytes io.Copy moves into an http.ResponseWriter before the
\* server flushes the response header (512 in net/http), scaled down.  The
\* model's bodies stay below the size (256 KiB) past which the server gives
\* up reading the rest of a request.
SniffLen == 2

InternalServerError == "Internal server error\n"

StatusInternalServerError == 500

NewResponse == [wroteHeader |-> FALSE, status |-> 0, out |-> <<>>, broken |-> FALSE]

Min(a, b) == IF a < b THEN a ELSE b

\* w.WriteHeader(code): only the first call sets the status.
WriteHeader(w, code) ==
    IF w.wroteHeader THEN w
    ELSE [w EXCEPT !.wroteHeader = TRUE, !.status = code]

\* w.Write(data): writes the header with status 200 if none was written;
\* fails, writing nothing, once a write on the connection has failed.
Write(w, data) ==
    LET w1 == IF data = <<>> THEN w ELSE WriteHeader(w, 200)
    IN  IF w1.broken THEN w1 ELSE [w1 EXCEPT !.out = @ \o data]

\* w.Write(data) failing on the connection after k bytes.
WriteFailing(w, data, k) ==
    LET w1 == WriteHeader(w, 200)
    IN  [w1 EXCEPT !.out = @ \o SubSeq(data, 1, k), !.broken = TRUE]

\* http.Error(w, error, code): w.WriteHeader(code); fmt.Fprintln(w, error)
HttpError(w, error, code) == Write(WriteHeader(w, code), <<error>>)

\* The handler returns: the server completes the response, with status 200
\* if the handler wrote none.
FinishRequest(w) == WriteHeader(w, 200)

\* fmt.Fprintf(w, "Hello, %s\n", body)
HelloMessage(body) == <<"Hello, ">> \o body \o <<"\n">>

NewReq(kind, body) ==
    [kind |-> kind, body |-> body, rd |-> 0, closed |-> FALSE, pc |-> "start",
     failed |-> "none", w |-> NewResponse]

InitH ==
    /\ routes = <<[kind |-> "echo", id |-> 1], [kind |-> "hello", id |-> 1]>>
    /\ mux = NewServeMuxResult(routes)
    /\ served = NoServed
    /\ app = "running"
    /\ starts = 0
    /\ startErr = Nil
    /\ lnState = [n \in Starts |-> "none"]
    /\ servePc = [n \in Starts |-> "none"]
    /\ tracked = {}
    /\ inShutdown = FALSE
    /\ stopPc = "idle"
    /\ stopErr = Nil
    /\ ctxDone = FALSE
    /\ hist = NoHist
    /\ conn = [c \in Conns |-> NoConn]
    /\ printed = {}
    /\ req \in [Reqs -> {NewReq(k, b) : k \in {"echo", "hello"}, b \in Bodies}]

\* Every variable but req and printed.
otherVars ==
    <<routes, mux, served, app, starts, startErr, lnState, servePc, tracked,
      inShutdown, stopPc, stopErr, ctxDone, hist, conn>>

\* body, err := io.ReadAll(r.Body) (main.go:148-153): on an error the
\* handler logs it and answers with http.Error.
HelloReadAll(r) ==
    /\ req[r].kind = "hello"
    /\ req[r].pc = "start"
    /\ \/ /\ req' = [req EXCEPT ![r].rd = Len(req[r].body), ![r].pc = "write"]
          /\ UNCHANGED printed
       \/ /\ req' = [req EXCEPT ![r].failed = "read", ![r].pc = "done",
                                ![r].w = FinishRequest(
                                    HttpError(@, InternalServerError,
                                              StatusInternalServerError))]
          /\ printed' = printed \cup {<<r, "Failed to read request", "err">>}
    /\ UNCHANGED otherVars

\* fmt.Fprintf(w, "Hello, %s\n", body) (main.go:155-159): on an error the
\* handler logs it and calls http.Error on the same writer.
HelloWrite(r) ==
    /\ req[r].kind = "hello"
    /\ req[r].pc = "write"
    /\ \/ /\ req' = [req EXCEPT ![r].pc = "done",
                                ![r].w = FinishRequest(
                                    Write(@, HelloMessage(req[r].body)))]
          /\ UNCHANGED printed
       \/ \E k \in 0..Len(req[r].body) :
          /\ req' = [req EXCEPT ![r].failed = "write", ![r].pc = "done",
                                ![r].w = FinishRequest(
                                    HttpError(
                                      WriteFailing(@, HelloMessage(req[r].body), k),
                                      InternalServerError,
                                      StatusInternalServerError))]
          /\ printed' = printed \cup {<<r, "Failed to write response", "err">>}
    /\ UNCHANGED otherVars

\* h.log.Info("Handling request", ...) (main.go:85)
EchoLog(r) ==
    /\ req[r].kind = "echo"
    /\ req[r].pc = "start"
    /\ req' = [req EXCEPT ![r].pc = "head"]
    /\ printed' = printed \cup {<<r, "Handling request", "/echo">>}
    /\ UNCHANGED otherVars

\* io.Copy(w, r.Body), first part (main.go:86): up to SniffLen bytes are
\* copied.  A shorter body ends the copy.  Otherwise the server flushes the
\* response header, and before it does so it consumes and closes what is
\* left of the request body.
EchoCopyHead(r) ==
    /\ req[r].kind = "echo"
    /\ req[r].pc = "head"
    /\ LET n == Min(Len(req[r].body), SniffLen)
       IN  req' = [req EXCEPT
                     ![r].rd = n,
                     ![r].closed = (n = SniffLen),
                     ![r].pc = IF n < SniffLen THEN "done" ELSE "tail",
                     ![r].w = IF n < SniffLen
                              THEN FinishRequest(Write(@, SubSeq(req[r].body, 1, n)))
                              ELSE Write(@, SubSeq(req[r].body, 1, n))]
    /\ UNCHANGED printed
    /\ UNCHANGED otherVars

\* io.Copy(w, r.Body), the rest: the next read of the closed body fails, the
\* copy ends with that error and the handler reports it on stderr
\* (main.go:86-92).
EchoCopyTail(r) ==
    /\ req[r].kind = "echo"
    /\ req[r].pc = "tail"
    /\ req[r].closed
    /\ req' = [req EXCEPT ![r].pc = "done", ![r].w = FinishRequest(@)]
    /\ printed' = printed \cup {<<r, "Failed to handle request:",
                                  "http: invalid Read on closed Body">>}
    /\ UNCHANGED otherVars

\* io.Copy(w, r.Body) hits an I/O error of the connection while it reads the
\* body or writes the response: the handler reports it on stderr.
EchoCopyError(r) ==
    /\ req[r].kind = "echo"
    /\ req[r].pc = "head"
    /\ \/ req' = [req EXCEPT ![r].failed = "read", ![r].pc = "done",
                             ![r].w = FinishRequest(@)]
       \/ /\ req[r].body # <<>>
          /\ req' = [req EXCEPT ![r].failed = "write", ![r].pc = "done",
                                ![r].w = FinishRequest(
                                    WriteFailing(@, req[r].body, 0))]
    /\ printed' = printed \cup {<<r, "Failed to handle request:", "err">>}
    /\ UNCHANGED otherVars

NextH ==
    \/ \E r \in Reqs : HelloReadAll(r)
    \/ \E r \in Reqs : HelloWrite(r)
    \/ \E r \in Reqs : EchoLog(r)
    \/ \E r \in Reqs : EchoCopyHead(r)
    \/ \E r \in Reqs : EchoCopyTail(r)
    \/ \E r \in Reqs : EchoCopyError(r)

SpecH == InitH /\ [][NextH]_vars

(* Properties of the handlers (SpecH).                                     *)

\* C8: a Hello request whose body could not be read, or whose response
\* could not be written, ends with status 500 and the body
\* "Internal server error\n"; the error is logged and is not in the response.
C8_HelloFailureIs500 ==
    \A r \in Reqs :
        (req[r].kind = "hello" /\ req[r].pc = "done" /\ req[r].failed # "none") =>
            /\ req[r].w.status = StatusInternalServerError
            /\ req[r].w.out = <<InternalServerError>>
            /\ \E line \in printed : line[1] = r /\ line[3] = "err"
            /\ \A i \in 1..Len(req[r].w.out) : req[r].w.out[i] # "err"

\* C9: every request that ran without an I/O error of its connection ends
\* with status 200 and with the body its own request body determines: the
\* body itself for /echo, "Hello, " + body + "\n" for /hello, whatever the
\* other requests do.
C9_EachResponseFromOwnBody ==
    \A r \in Reqs :
        (req[r].pc = "done" /\ req[r].failed = "none") =>
            /\ req[r].w.status = 200
            /\ req[r].w.out = IF req[r].kind = "echo" THEN req[r].body
                              ELSE <<"Hello, ">> \o req[r].body \o <<"\n">>

----------------------------------------------------------------------------
(* Properties of the lifecycle (Spec).                                     *)

\* The lifecycle state of the server, read off srv and the hooks' history.
ServerState ==
    IF hist.shutdownReturned THEN "Stopped"
    ELSE IF inShutdown THEN "ShuttingDown"
    ELSE IF hist.everStarted THEN "Listening"
    ELSE "Unstarted"

Rank(state) ==
    CASE state = "Unstarted" -> 0
      [] state = "Listening" -> 1
      [] state = "ShuttingDown" -> 2
      [] state = "Stopped" -> 3

\* C1: every step of the start hook, the accept loop and the stop hook leaves
\* the lifecycle state where it is or moves it one state forward along
\* Unstarted -> Listening -> ShuttingDown -> Stopped; and once the server is
\* Stopped no later Start serves again: no Serve registers a listener and no
\* connection is accepted.
C1_ForwardOnly ==
    [][/\ Rank(ServerState') \in {Rank(ServerState), Rank(ServerState) + 1}
       /\ hist.shutdownReturned =>
            /\ tracked' \subseteq tracked
            /\ \A c \in Conns : conn[c].state = "none" => conn'[c].state = "none"]_vars

\* C1 witness: after the server was stopped, OnStart ran again, bound the
\* address and returned nil, its Serve returned at once, and the server is
\* still Stopped.
C1_Witness ==
    /\ hist.shutdownReturned
    /\ starts = 2
    /\ startErr = Nil
    /\ servePc[2] = "returned"
    /\ ServerState = "Stopped"

\* C2: when net.Listen fails, OnStart returns the error, spawns no goroutine,
\* binds nothing and leaves the lifecycle state alone, and the application
\* is not running; whenever the application is running, the mux was built
\* and the last OnStart bound the address and returned nil.
C2_BindFailureAbortsStart ==
    /\ startErr = "bind" =>
         /\ app \in {"rollback", "failed", "exited"}
         /\ servePc[starts] = "none"
         /\ lnState[starts] = "none"
         /\ ~hist.everStarted =>
              ServerState = "Unstarted" /\ "Starting HTTP server" \notin printed
    /\ app = "running" =>
         /\ mux.state = "ok"
         /\ startErr = Nil
         /\ starts >= 1
         /\ lnState[starts] # "none"

\* C2 witness: the first OnStart failed to bind and fx has rolled back.
C2_Witness == startErr = "bind" /\ app = "failed" /\ ~hist.everStarted

\* C3: once Stop has returned and some request was in flight when the
\* deadline expired, Stop returned an error and every such connection has
\* been forcibly closed.
C3_TimeoutSeversConnections ==
    (app \in {"stoppingMux", "stopped"} /\ \E c \in Conns : conn[c].atDeadline) =>
        /\ stopErr # Nil
        /\ \A c \in Conns :
             conn[c].atDeadline => conn[c].state = "closed" /\ conn[c].severed

\* C4 as stated: a request in flight at Stop whose handler finished before
\* the deadline has its complete response, was not severed, and Stop
\* returned nil.
C4_FinishedInTimeMeansNoTimeout ==
    \A c \in Conns :
        (conn[c].finished = "beforeDeadline" /\ app \in {"stoppingMux", "stopped"}) =>
            /\ conn[c].resp = "complete"
            /\ ~conn[c].severed
            /\ stopErr = Nil

\* C4 amended: Stop never cancels a handler or severs a connection (only the
\* end of the process does); a request in flight at Stop whose handler
\* finished before the deadline has its complete response and is never
\* severed; Stop returns an error only if its deadline expired before a
\* poll of Shutdown found every connection idle, and returns nil only when
\* no request is running and every connection is closed.
C4_GracefulUntilDeadline ==
    /\ \A c \in Conns :
         (conn[c].atStop /\ app # "exited") =>
            /\ ~conn[c].severed
            /\ conn[c].state = "active" \/ conn[c].resp = "complete"
    /\ \A c \in Conns :
         conn[c].finished = "beforeDeadline" =>
            conn[c].resp = "complete" /\ ~conn[c].severed
    /\ (app \in {"stoppingMux", "stopped"} /\ stopErr # Nil) => ctxDone
    /\ (app \in {"stoppingMux", "stopped"} /\ stopErr = Nil) =>
         \A c \in Conns : conn[c].state \in {"none", "closed"}

\* C4 witness: Stop has returned nil after a request that was in flight when
\* it was called finished before the deadline.
C4_Witness ==
    /\ app = "stopped"
    /\ stopErr = Nil
    /\ \E c \in Conns : conn[c].finished = "beforeDeadline" /\ conn[c].resp = "complete"

\* C5: once Stop has returned, it returned nil if no connection was ever
\* accepted, and no listening socket of the server is open.
C5_StopClosesListener ==
    app \in {"stoppingMux", "stopped"} =>
        /\ (\A c \in Conns : conn[c].state = "none") => stopErr = Nil
        /\ \A n \in Starts : lnState[n] # "open"

HasCollision(rs) ==
    \E i, j \in 1..Len(rs) : i # j /\ Pattern(rs[i]) = Pattern(rs[j])

\* C6: with two routes of the same pattern the construction of the mux
\* panics: the process never gets past fx.New, no hook runs and no request
\* is served; a mux that was built holds, for every route it was given,
\* exactly one entry under the route's pattern, and that entry is the route.
C6_CollisionFailsAtBuild ==
    /\ HasCollision(routes) =>
         /\ app \in {"new", "crashed"}
         /\ mux.state # "ok"
         /\ starts = 0
         /\ printed = {}
         /\ \A c \in Conns : conn[c].state = "none"
    /\ (app # "new" /\ ~HasCollision(routes)) => mux.state = "ok"
    /\ mux.state = "ok" =>
         \A i \in 1..Len(routes) :
             {e \in mux.m : e.pattern = Pattern(routes[i])}
               = {[pattern |-> Pattern(routes[i]), handler |-> routes[i]]}

\* C6 witness: NewServeMux was handed two routes that both report /echo and
\* has panicked.
C6_Witness ==
    /\ app = "crashed"
    /\ mux.state = "panic"
    /\ \E i, j \in 1..Len(routes) :
         i # j /\ routes[i] # routes[j] /\ Pattern(routes[i]) = EchoPattern
               /\ Pattern(routes[j]) = EchoPattern

\* C10: after a non-temporary accept error the server is still accepting
\* while the application runs, and the error the loop ends with after Stop
\* is not printed as a server error.
C10_AcceptLoopSurvives ==
    /\ (hist.fatalAccept /\ app = "running") =>
         \E n \in Starts : servePc[n] = "accept" /\ lnState[n] = "open"
    /\ "HTTP server error: http: Server closed" \notin printed

----------------------------------------------------------------------------
(* Properties of dispatch (SpecMux).                                       *)

\* A path in the form the mux serves without redirecting: not empty, no
\* "." or ".." segment, and no empty segment except one trailing slash.
IsClean(p) ==
    /\ p # <<>>
    /\ \A i \in 1..Len(p) :
         /\ p[i] \notin {".", ".."}
         /\ p[i] = "" => i = Len(p)

====
